---- MODULE Spec2Model ----
(***************************************************************************)
(* Model of the vintage report generator: server/excelProcessor.ts (the    *)
(* SheetJS-based ExcelProcessor), its ExcelJS-based variant, server/       *)
(* routes.ts (the two HTTP handlers) and the MemStorage keyed store.       *)
(*                                                                         *)
(* JavaScript strings are sequences of UTF-16 code units, so that trim,   *)
(* the default Array.prototype.sort order and localeCompare are computed   *)
(* as the runtime computes them.  Error messages and object keys are never *)
(* inspected character by character and stay TLA+ strings.                 *)
(***************************************************************************)
EXTENDS Integers, Sequences, FiniteSets, TLC

VARIABLES
    realizedWorkbook,    \* parsed realized input of the partitioning run
    unrealizedWorkbook,  \* parsed unrealized input of the partitioning run
    impl,                \* which processFiles ran: "none", "xlsx", "exceljs"
    out,                 \* what it returned or threw
    realizedRows,        \* realized row set handed to getUniqueSymbols
    derived,             \* whether getUniqueSymbols has run
    uniqueSymbols,       \* what it returned
    vintageFiles,        \* MemStorage.vintageFiles: vintage name -> buffer
    pc,                  \* per request: position of the process-files handler
    files,               \* per request: req.files
    vintageData,         \* per request: the handler's vintageData
    results,             \* per request: the handler's results
    cursor,              \* per request: index of the store loop
    stored,              \* per request: the buffers it has put in the store
    response,            \* per request: the response sent
    outAgain,            \* what a second run on the same two inputs returned or threw
    genColumns,          \* column orders of the sheets a partition's rows were read from
    genVintage,          \* the partition handed to generateVintageExcel
    generator,           \* which generateVintageExcel ran: "none", "xlsx", "table", "exceljs"
    genWrite,            \* the outcome of its serializer call
    genBuffer,           \* what it returned or threw
    genResult,           \* the VintageResult derived from the partition and the buffer
    calls,               \* the calls made on the keyed store, oldest first
    got,                 \* what the last getVintageFile call returned
    download             \* the response of the last download request

partitionVars == <<realizedWorkbook, unrealizedWorkbook, impl, out, outAgain>>

generateVars == <<genColumns, genVintage, generator, genWrite, genBuffer, genResult>>

storageVars == <<calls, got, download>>

symbolVars == <<realizedRows, derived, uniqueSymbols>>

serverVars == <<vintageFiles, pc, files, vintageData, results, cursor, stored, response>>

vars == <<partitionVars, symbolVars, serverVars, generateVars, storageVars>>

----------------------------------------------------------------------------
(* JavaScript values and strings *)

Undefined == [t |-> "undefined", s |-> <<>>]

Str(s) == [t |-> "string", s |-> s]

\* ToBoolean: undefined and the empty string are falsy, any other string truthy
Truthy(v) == v.t = "string" /\ v.s # <<>>

\* a || b
Or(a, b) == IF Truthy(a) THEN a ELSE b

\* String(v); "undefined" for undefined
StringOf(v) == IF v.t = "string" THEN v.s ELSE <<117, 110, 100, 101, 102, 105, 110, 101, 100>>

\* row[key]: undefined when the row object has no such property
Get(row, key) == IF key \in DOMAIN row THEN Str(row[key]) ELSE Undefined

WhiteSpace == {9, 10, 11, 12, 13, 32}

\* String.prototype.trim
Trim(s) ==
    LET keep == {i \in 1..Len(s) : s[i] \notin WhiteSpace}
    IN  IF keep = {} THEN <<>>
        ELSE LET lo == CHOOSE i \in keep : \A j \in keep : i <= j
                 hi == CHOOSE i \in keep : \A j \in keep : j <= i
             IN  SubSeq(s, lo, hi)

\* three-way lexicographic comparison of two sequences of integers
SeqCompare(x, y) ==
    LET n == IF Len(x) < Len(y) THEN Len(x) ELSE Len(y)
        diff == {i \in 1..n : x[i] # y[i]}
    IN  IF diff = {}
        THEN (IF Len(x) < Len(y) THEN -1 ELSE IF Len(x) > Len(y) THEN 1 ELSE 0)
        ELSE LET i == CHOOSE k \in diff : \A j \in diff : k <= j
             IN  IF x[i] < y[i] THEN -1 ELSE 1

\* the comparison of the default Array.prototype.sort: UTF-16 code unit order
CodeUnitCompare(a, b) == SeqCompare(a, b)

\* collation weights of the root locale for blank, digits and ASCII letters:
\* the primary weight ignores letter case, the tertiary weight puts the
\* lower-case letter before the upper-case one
PrimaryWeight(c) == IF c \in 97..122 THEN c - 32 ELSE c

TertiaryWeight(c) == IF c \in 65..90 THEN 1 ELSE 0

\* mutant of localeCompare: numeric collation ({ numeric: true }) of names
\* that end in a number, the name with the shorter number first
localeCompare_Numeric(a, b) ==
    IF Len(a) < Len(b) THEN -1
    ELSE IF Len(a) > Len(b) THEN 1
    ELSE SeqCompare(a, b)

\* String.prototype.localeCompare: primary weights first, case only as a tie-break
localeCompare(a, b) ==
    LET p == SeqCompare([i \in 1..Len(a) |-> PrimaryWeight(a[i])],
                        [i \in 1..Len(b) |-> PrimaryWeight(b[i])])
    IN  IF p # 0 THEN p
        ELSE SeqCompare([i \in 1..Len(a) |-> TertiaryWeight(a[i])],
                        [i \in 1..Len(b) |-> TertiaryWeight(b[i])])

\* Array.prototype.sort, a stable sort; compare[<<j, i>>] is what the
\* comparison of arr[j] with arr[i] returns
SortWith(arr, compare) ==
    LET n == Len(arr)
        rank(i) == 1 + Cardinality({j \in 1..n :
                        \/ compare[<<j, i>>] < 0
                        \/ (compare[<<j, i>>] = 0 /\ j < i)})
    IN  [k \in 1..n |-> arr[CHOOSE i \in 1..n : rank(i) = k]]

\* Set.prototype.add on a Set kept in insertion order
SetAdd(set, x) == IF \E i \in 1..Len(set) : set[i] = x THEN set ELSE Append(set, x)

RECURSIVE SetAddAll(_, _)
\* new Set([...a, ...b]) continued: add the elements of xs in order
SetAddAll(set, xs) ==
    IF xs = <<>> THEN set ELSE SetAddAll(SetAdd(set, Head(xs)), Tail(xs))

\* a thrown Error and a normal return
Throw(m) == [threw |-> TRUE, message |-> m, value |-> <<>>]

Return(v) == [threw |-> FALSE, message |-> "", value |-> v]

----------------------------------------------------------------------------
(* ExcelProcessor: partitioning *)

\* mutant of VintageOf: the upper-case spelling is read too
VintageOf_AnyCasing(row) ==
    Or(Or(Get(row, "Vintage"), Get(row, "vintage")), Get(row, "VINTAGE"))

\* const vintage = row["Vintage"] || row["vintage"]
VintageOf(row) == Or(Get(row, "Vintage"), Get(row, "vintage"))

RECURSIVE extractVintagesFrom(_, _, _)
extractVintagesFrom(data, i, vintages) ==
    IF i > Len(data) THEN vintages
    ELSE LET vintage == VintageOf(data[i])
         IN  extractVintagesFrom(data, i + 1,
                 IF Truthy(vintage)
                 THEN SetAdd(vintages, Trim(StringOf(vintage)))
                 ELSE vintages)

extractVintages(worksheet) == extractVintagesFrom(worksheet, 1, <<>>)

\* mutant of filterRowsByVintage: compares the untrimmed value
filterRowsByVintage_Untrimmed(worksheet, vintageName) ==
    SelectSeq(worksheet,
              LAMBDA row : LET vintage == VintageOf(row)
                           IN  Truthy(vintage) /\ StringOf(vintage) = vintageName)

\* mutant of filterRowsByVintage: the vintage is read under "Vintage" only
filterRowsByVintage_ExactKey(worksheet, vintageName) ==
    SelectSeq(worksheet,
              LAMBDA row : LET vintage == Get(row, "Vintage")
                           IN  Truthy(vintage) /\ Trim(StringOf(vintage)) = vintageName)

\* mutant of filterRowsByVintage: the matching rows, last first
filterRowsByVintage_Reversed(worksheet, vintageName) ==
    LET kept == SelectSeq(worksheet,
                          LAMBDA row : LET vintage == VintageOf(row)
                                       IN  Truthy(vintage) /\ Trim(StringOf(vintage)) = vintageName)
    IN  [i \in 1..Len(kept) |-> kept[Len(kept) + 1 - i]]

filterRowsByVintage(worksheet, vintageName) ==
    SelectSeq(worksheet,
              LAMBDA row : LET vintage == VintageOf(row)
                           IN  Truthy(vintage) /\ Trim(StringOf(vintage)) = vintageName)

\* mutant of allVintagesOf: the realized vintages only
allVintagesOf_RealizedOnly(realizedVintages, unrealizedVintages) == realizedVintages

\* new Set([...Array.from(realizedVintages), ...Array.from(unrealizedVintages)])
allVintagesOf(realizedVintages, unrealizedVintages) ==
    SetAddAll(SetAddAll(<<>>, realizedVintages), unrealizedVintages)

\* mutant of partitionAndSort: the sort left out
partitionAndSort_Unsorted(realizedSheet, unrealizedSheet, allVintages) ==
    [k \in 1..Len(allVintages) |->
        [vintageName    |-> allVintages[k],
         realizedRows   |-> filterRowsByVintage(realizedSheet, allVintages[k]),
         unrealizedRows |-> filterRowsByVintage(unrealizedSheet, allVintages[k])]]

\* the loop over allVintages, the sort and the return of processFiles
partitionAndSort(realizedSheet, unrealizedSheet, allVintages) ==
    LET vintageDataArray ==
            [k \in 1..Len(allVintages) |->
                [vintageName    |-> allVintages[k],
                 realizedRows   |-> filterRowsByVintage(realizedSheet, allVintages[k]),
                 unrealizedRows |-> filterRowsByVintage(unrealizedSheet, allVintages[k])]]
    IN  SortWith(vintageDataArray,
                 [p \in (1..Len(allVintages)) \X (1..Len(allVintages)) |->
                     localeCompare(vintageDataArray[p[1]].vintageName,
                                   vintageDataArray[p[2]].vintageName)])

\* mutant of processFiles: each check looks at the unrealized input first
processFiles_UnrealizedFirst(realizedBuffer, unrealizedBuffer) ==
    IF Len(unrealizedBuffer) = 0 THEN Throw("Unrealized Excel file has no sheets")
    ELSE IF Len(realizedBuffer) = 0 THEN Throw("Realized Excel file has no sheets")
    ELSE LET realizedSheet      == realizedBuffer[1]
             unrealizedSheet    == unrealizedBuffer[1]
             realizedVintages   == extractVintages(realizedSheet)
             unrealizedVintages == extractVintages(unrealizedSheet)
         IN  IF Len(unrealizedVintages) = 0
             THEN Throw("Unrealized Excel file does not contain a 'Vintage' column")
             ELSE IF Len(realizedVintages) = 0
             THEN Throw("Realized Excel file does not contain a 'Vintage' column")
             ELSE Return(partitionAndSort(realizedSheet, unrealizedSheet,
                             allVintagesOf(realizedVintages, unrealizedVintages)))

\* a workbook is the sequence of its sheets, a sheet the rows sheet_to_json yields
processFiles(realizedBuffer, unrealizedBuffer) ==
    IF Len(realizedBuffer) = 0 THEN Throw("Realized Excel file has no sheets")
    ELSE IF Len(unrealizedBuffer) = 0 THEN Throw("Unrealized Excel file has no sheets")
    ELSE LET realizedSheet      == realizedBuffer[1]
             unrealizedSheet    == unrealizedBuffer[1]
             realizedVintages   == extractVintages(realizedSheet)
             unrealizedVintages == extractVintages(unrealizedSheet)
         IN  IF Len(realizedVintages) = 0
             THEN Throw("Realized Excel file does not contain a 'Vintage' column")
             ELSE IF Len(unrealizedVintages) = 0
             THEN Throw("Unrealized Excel file does not contain a 'Vintage' column")
             ELSE Return(partitionAndSort(realizedSheet, unrealizedSheet,
                             allVintagesOf(realizedVintages, unrealizedVintages)))

RECURSIVE collectSymbols(_, _, _)
\* the loop of getUniqueSymbols over realizedRows
collectSymbols(rows, i, symbols) ==
    IF i > Len(rows) THEN symbols
    ELSE LET symbol == Get(rows[i], "Symbol")
         IN  collectSymbols(rows, i + 1,
                 IF Truthy(symbol)
                 THEN SetAdd(symbols, Trim(StringOf(symbol)))
                 ELSE symbols)

\* Array.from(symbols).sort(): the default sort, by UTF-16 code units
getUniqueSymbols(rows) ==
    LET symbols == collectSymbols(rows, 1, <<>>)
    IN  SortWith(symbols,
                 [p \in (1..Len(symbols)) \X (1..Len(symbols)) |->
                     CodeUnitCompare(symbols[p[1]], symbols[p[2]])])

----------------------------------------------------------------------------
(* ExcelProcessor: workbook generation *)

\* IFERROR(MINIFS(Realized!B:B,Realized!A:A,"<symbol>",Realized!C:C,"BUY"),"")
firstPurchaseDateFormula(symbol) ==
    [f |-> "IFERROR(MINIFS)", minRange |-> "Realized!B:B",
     symbolRange |-> "Realized!A:A", symbol |-> symbol,
     actionRange |-> "Realized!C:C", action |-> "BUY"]

\* mutant of initialAmountFormula: the date cell of the row above
initialAmountFormula_RowAbove(symbol, rowNum) ==
    [f |-> "IFERROR(SUMIFS)", sumRange |-> "Realized!F:F",
     symbolRange |-> "Realized!A:A", symbol |-> symbol,
     dateRange |-> "Realized!B:B", dateCell |-> [column |-> "B", row |-> rowNum - 1],
     actionRange |-> "Realized!C:C", action |-> "BUY"]

\* IFERROR(SUMIFS(Realized!F:F,Realized!A:A,"<symbol>",Realized!B:B,B<rowNum>,
\*                Realized!C:C,"BUY"),0)
initialAmountFormula(symbol, rowNum) ==
    [f |-> "IFERROR(SUMIFS)", sumRange |-> "Realized!F:F",
     symbolRange |-> "Realized!A:A", symbol |-> symbol,
     dateRange |-> "Realized!B:B", dateCell |-> [column |-> "B", row |-> rowNum],
     actionRange |-> "Realized!C:C", action |-> "BUY"]

\* json_to_sheet(initialPurchaseData) takes the header row from the keys of
\* the data objects, so there is none when there is no symbol; the cells of
\* columns B and C are then overwritten with formula cells.  data[index] is
\* the sheet row index + 1.
createInitialPurchaseSheet(rows) ==
    LET symbols == getUniqueSymbols(rows)
    IN  [name   |-> "Initial Purchase",
         header |-> IF symbols = <<>> THEN <<>>
                    ELSE <<"Symbol", "First Purchase Date", "Initial Amount">>,
         data   |-> [index \in 1..Len(symbols) |->
                        [A |-> symbols[index],
                         B |-> firstPurchaseDateFormula(symbols[index]),
                         C |-> initialAmountFormula(symbols[index], index + 1)]]]

\* the outcomes of one XLSX.write call: it throws, or it returns the archive
\* with container metadata (stamp) that varies from call to call
WriteOutcomes ==
    { [threw |-> TRUE, stamp |-> 0], [threw |-> FALSE, stamp |-> 0],
      [threw |-> FALSE, stamp |-> 1] }

\* XLSX.write(workbook, { type: "buffer", bookType: "xlsx" })
write(workbook, outcome) ==
    IF outcome.threw THEN Throw("Failed to write workbook")
    ELSE Return([workbook |-> workbook, stamp |-> outcome.stamp])

RECURSIVE rowsIn(_)
\* the data rows of all sheets of a workbook
rowsIn(workbook) ==
    IF workbook = <<>> THEN 0 ELSE Len(Head(workbook).data) + rowsIn(Tail(workbook))

\* buffer.length: the archive grows with the rows it holds and with its metadata
byteLength(buffer) == rowsIn(buffer.workbook) + buffer.stamp

\* Object.keys(row): sheet_to_json gives a row its properties in the column
\* order of the sheet it was read from, skipping the cells the row lacks
ObjectKeys(row, columns) == SelectSeq(columns, LAMBDA k : k \in DOMAIN row)

RECURSIVE headerOf(_, _, _, _)
\* the header of json_to_sheet: the keys of all rows, in order of first use
headerOf(js, columns, i, hdr) ==
    IF i > Len(js) THEN hdr
    ELSE headerOf(js, columns, i + 1, SetAddAll(hdr, ObjectKeys(js[i], columns)))

\* XLSX.utils.json_to_sheet(js): a header row (none for an empty array) and
\* one data row per object, each value under the column of its key
json_to_sheet(js, columns) ==
    LET hdr == headerOf(js, columns, 1, <<>>)
    IN  [header |-> hdr,
         data   |-> [i \in 1..Len(js) |-> [c \in 1..Len(hdr) |-> Get(js[i], hdr[c])]]]

\* XLSX.utils.book_append_sheet(workbook, sheet, name)
book_append_sheet(workbook, sheet, name) ==
    Append(workbook, [name |-> name, header |-> sheet.header, data |-> sheet.data])

\* mutant of generateVintageExcel: a sheet is appended only for a row set
\* that has rows
generateVintageExcel_SkipsEmptySheets(vintage, columns, outcome) ==
    LET realized   == IF vintage.realizedRows = <<>> THEN <<>>
                      ELSE book_append_sheet(<<>>,
                               json_to_sheet(vintage.realizedRows, columns.realized),
                               "Realized")
        unrealized == IF vintage.unrealizedRows = <<>> THEN realized
                      ELSE book_append_sheet(realized,
                               json_to_sheet(vintage.unrealizedRows, columns.unrealized),
                               "Unrealized")
    IN  write(book_append_sheet(unrealized,
                                createInitialPurchaseSheet(vintage.realizedRows),
                                "Initial Purchase"),
              outcome)

\* the workbook generateVintageExcel builds before it serializes it
vintageWorkbook(vintage, columns) ==
    LET realizedSheet        == json_to_sheet(vintage.realizedRows, columns.realized)
        unrealizedSheet      == json_to_sheet(vintage.unrealizedRows, columns.unrealized)
        initialPurchaseSheet == createInitialPurchaseSheet(vintage.realizedRows)
    IN  book_append_sheet(
            book_append_sheet(
                book_append_sheet(<<>>, realizedSheet, "Realized"),
                unrealizedSheet, "Unrealized"),
            initialPurchaseSheet, "Initial Purchase")

\* mutant of generateVintageExcel: a row set without rows is rejected
generateVintageExcel_RejectsEmptyRows(vintage, columns, outcome) ==
    IF vintage.realizedRows = <<>> \/ vintage.unrealizedRows = <<>>
    THEN Throw("Cannot build a sheet without rows")
    ELSE write(vintageWorkbook(vintage, columns), outcome)

\* columns.realized and columns.unrealized are the column orders of the two
\* input sheets the rows were read from
generateVintageExcel(vintage, columns, outcome) ==
    write(vintageWorkbook(vintage, columns), outcome)

\* variant with explicit cells:
\* MINIFS(Realized!K:K,Realized!G:G,'Initial Purchase'!A<rowNum>,Realized!M:M,"BUY")
firstPurchaseDateFormulaTable(rowNum) ==
    [f |-> "MINIFS", minRange |-> "Realized!K:K",
     symbolRange |-> "Realized!G:G", symbolCell |-> [column |-> "A", row |-> rowNum],
     actionRange |-> "Realized!M:M", action |-> "BUY"]

\* SUMIFS(Realized!P:P,Realized!K:K,'Initial Purchase'!B<rowNum>,Realized!G:G,
\*        'Initial Purchase'!A<rowNum>,Realized!M:M,"BUY")
initialAmountFormulaTable(rowNum) ==
    [f |-> "SUMIFS", sumRange |-> "Realized!P:P",
     dateRange |-> "Realized!K:K", dateCell |-> [column |-> "B", row |-> rowNum],
     symbolRange |-> "Realized!G:G", symbolCell |-> [column |-> "A", row |-> rowNum],
     actionRange |-> "Realized!M:M", action |-> "BUY"]

\* variant with explicit cells: A1:C1 hold the header whatever the symbols,
\* the symbol at index is in sheet row index + 1
createInitialPurchaseSheetTable(rows) ==
    LET symbols == getUniqueSymbols(rows)
    IN  [name   |-> "Initial Purchase",
         header |-> <<"Symbol", "First Purchase Date", "Initial Amount">>,
         data   |-> [index \in 1..Len(symbols) |->
                        [A |-> symbols[index],
                         B |-> firstPurchaseDateFormulaTable(index + 1),
                         C |-> initialAmountFormulaTable(index + 1)]]]

\* variant with explicit cells of generateVintageExcel
generateVintageExcelTable(vintage, columns, outcome) ==
    LET realizedSheet        == json_to_sheet(vintage.realizedRows, columns.realized)
        unrealizedSheet      == json_to_sheet(vintage.unrealizedRows, columns.unrealized)
        initialPurchaseSheet == createInitialPurchaseSheetTable(vintage.realizedRows)
    IN  write(book_append_sheet(
                  book_append_sheet(
                      book_append_sheet(<<>>, realizedSheet, "Realized"),
                      unrealizedSheet, "Unrealized"),
                  initialPurchaseSheet, "Initial Purchase"),
              outcome)

\* "_Portfolio.xlsx"
PortfolioSuffix == <<95, 80, 111, 114, 116, 102, 111, 108, 105, 111, 46, 120, 108, 115, 120>>

\* mutant of vintageResult: the two row counts swapped
vintageResult_CountsSwapped(partition, buffer) ==
    [vintageName        |-> partition.vintageName,
     filename           |-> partition.vintageName \o PortfolioSuffix,
     realizedRowCount   |-> Len(partition.unrealizedRows),
     unrealizedRowCount |-> Len(partition.realizedRows),
     fileSize           |-> byteLength(buffer)]

\* the VintageResult of one partition and its buffer
vintageResult(partition, buffer) ==
    [vintageName        |-> partition.vintageName,
     filename           |-> partition.vintageName \o PortfolioSuffix,
     realizedRowCount   |-> Len(partition.realizedRows),
     unrealizedRowCount |-> Len(partition.unrealizedRows),
     fileSize           |-> byteLength(buffer)]

\* mutant of processAndGenerateFiles: a failed build ends the batch but the
\* vintages built before it are returned
processAndGenerateFiles_Partial(realizedBuffer, unrealizedBuffer, columns, outcomes) ==
    LET processed == processFiles(realizedBuffer, unrealizedBuffer)
    IN  IF processed.threw THEN processed
        ELSE LET vintageDataArray == processed.value
                 generated == [k \in 1..Len(vintageDataArray) |->
                                  generateVintageExcel(vintageDataArray[k], columns,
                                                       outcomes[k])]
                 built == Cardinality({k \in 1..Len(generated) :
                                          \A j \in 1..k : ~generated[j].threw})
             IN  Return([vintageData |-> SubSeq(vintageDataArray, 1, built),
                         results |-> [k \in 1..built |->
                                         vintageResult(vintageDataArray[k],
                                                       generated[k].value)]])

\* mutant of processAndGenerateFiles: the partitions come back in the
\* reverse of the order processFiles gave them
processAndGenerateFiles_Reversed(realizedBuffer, unrealizedBuffer, columns, outcomes) ==
    LET processed == processFiles(realizedBuffer, unrealizedBuffer)
    IN  IF processed.threw THEN processed
        ELSE LET n == Len(processed.value)
                 vintageDataArray == [k \in 1..n |-> processed.value[n + 1 - k]]
             IN  Return([vintageData |-> vintageDataArray,
                         results |-> [k \in 1..n |->
                             vintageResult(vintageDataArray[k],
                                 generateVintageExcel(vintageDataArray[k], columns,
                                                      outcomes[k]).value)]])

\* columns are the column orders of the two uploaded sheets, outcomes[k] is
\* the outcome of the XLSX.write call for the k-th partition
processAndGenerateFiles(realizedBuffer, unrealizedBuffer, columns, outcomes) ==
    LET processed == processFiles(realizedBuffer, unrealizedBuffer)
    IN  IF processed.threw THEN processed
        ELSE LET vintageDataArray == processed.value
                 generated == [k \in 1..Len(vintageDataArray) |->
                                  generateVintageExcel(vintageDataArray[k], columns,
                                                       outcomes[k])]
             IN  IF \E k \in 1..Len(generated) : generated[k].threw
                 THEN generated[CHOOSE k \in 1..Len(generated) :
                                    /\ generated[k].threw
                                    /\ \A j \in 1..k - 1 : ~generated[j].threw]
                 ELSE Return([vintageData |-> vintageDataArray,
                              results |-> [k \in 1..Len(vintageDataArray) |->
                                              vintageResult(vintageDataArray[k],
                                                            generated[k].value)]])

----------------------------------------------------------------------------
(* MemStorage *)

\* mutant of storeVintageFile: the map is cleared before the entry is set
storeVintageFile_ClearsFirst(map, vintageName, buffer) ==
    [k \in {vintageName} |-> buffer]

\* mutant of storeVintageFile: an entry already present is kept
storeVintageFile_KeepsFirst(map, vintageName, buffer) ==
    [k \in DOMAIN map \cup {vintageName} |-> IF k \in DOMAIN map THEN map[k] ELSE buffer]

\* this.vintageFiles.set(vintageName, buffer)
storeVintageFile(map, vintageName, buffer) ==
    [k \in DOMAIN map \cup {vintageName} |-> IF k = vintageName THEN buffer ELSE map[k]]

\* this.vintageFiles.get(vintageName): undefined when there is no entry
getVintageFile(map, vintageName) ==
    IF vintageName \in DOMAIN map THEN map[vintageName] ELSE Undefined

\* this.vintageFiles.clear()
clearVintageFiles(map) == <<>>

----------------------------------------------------------------------------
(* routes: GET /api/download/:vintageName *)

\* the value of a hexadecimal digit, -1 for any other code unit
HexDigit(c) ==
    IF c \in 48..57 THEN c - 48
    ELSE IF c \in 65..70 THEN c - 55
    ELSE IF c \in 97..102 THEN c - 87
    ELSE -1

RECURSIVE decodeFrom(_, _, _)
\* decodeURIComponent from position i on: "%" must be followed by two
\* hexadecimal digits; an escaped byte below 128 is that code unit, a lone
\* byte from 128 on is not a UTF-8 sequence
decodeFrom(s, i, decoded) ==
    IF i > Len(s) THEN Return(decoded)
    ELSE IF s[i] # 37 THEN decodeFrom(s, i + 1, Append(decoded, s[i]))
    ELSE IF i + 2 > Len(s) THEN Throw("URI malformed")
    ELSE IF HexDigit(s[i + 1]) < 0 \/ HexDigit(s[i + 2]) < 0 THEN Throw("URI malformed")
    ELSE IF 16 * HexDigit(s[i + 1]) + HexDigit(s[i + 2]) >= 128 THEN Throw("URI malformed")
    ELSE decodeFrom(s, i + 3,
                    Append(decoded, 16 * HexDigit(s[i + 1]) + HexDigit(s[i + 2])))

decodeURIComponent(s) == decodeFrom(s, 1, <<>>)

NoDownload == [status |-> 0, message |-> "", filename |-> <<>>, body |-> Undefined]

\* the handler; param is req.params.vintageName
downloadResponse(map, param) ==
    LET decoded == decodeURIComponent(param)
    IN  IF decoded.threw
        THEN [status |-> 500, message |-> decoded.message, filename |-> <<>>,
              body |-> Undefined]
        ELSE LET vintageName == decoded.value
                 buffer      == getVintageFile(map, vintageName)
             IN  IF buffer = Undefined
                 THEN [status |-> 404, message |-> "Vintage file not found",
                       filename |-> <<>>, body |-> Undefined]
                 ELSE [status |-> 200, message |-> "",
                       filename |-> vintageName \o PortfolioSuffix, body |-> buffer]

----------------------------------------------------------------------------
(* routes: POST /api/process-files *)

NoResponse == [status |-> 0, message |-> "", hasVintages |-> FALSE, vintages |-> <<>>]

\* res.status(400).json({ message })
missingFilesResponse ==
    [status |-> 400, message |-> "Both realized and unrealized Excel files are required",
     hasVintages |-> FALSE, vintages |-> <<>>]

\* mutant of catchResponse: the errors processFiles throws answered with 400
catchResponse_ClientError(error) ==
    [status |-> IF error.message = "Failed to write workbook" THEN 500 ELSE 400,
     message |-> error.message, hasVintages |-> FALSE, vintages |-> <<>>]

\* the catch block: res.status(500).json({ message: error.message })
catchResponse(error) ==
    [status |-> 500, message |-> error.message, hasVintages |-> FALSE, vintages |-> <<>>]

RECURSIVE join(_)
\* Array.prototype.join(", ")
join(names) ==
    IF names = <<>> THEN <<>>
    ELSE IF Len(names) = 1 THEN names[1]
    ELSE names[1] \o <<44, 32>> \o join(Tail(names))

\* mutant of successResponse: the results answered latest name first
successResponse_Reversed(vintages) ==
    LET n == Len(vintages)
        reversed == [k \in 1..n |-> vintages[n + 1 - k]]
    IN  [status |-> 200, message |-> "Successfully processed", hasVintages |-> TRUE,
         vintages |-> reversed, count |-> n,
         listed |-> join([k \in 1..n |-> reversed[k].vintageName])]

\* res.json({ vintages: results, message }): status 200; the message is
\* "Successfully processed <count> Vintage(s): <listed>"
successResponse(vintages) ==
    [status |-> 200, message |-> "Successfully processed", hasVintages |-> TRUE,
     vintages |-> vintages, count |-> Len(vintages),
     listed |-> join([k \in 1..Len(vintages) |-> vintages[k].vintageName])]

\* mutant of filesMissing: only the realized file is looked for
filesMissing_RealizedOnly(upload) == ~upload.realized.present

\* !files?.realized?.[0] || !files?.unrealized?.[0]
filesMissing(upload) == ~upload.realized.present \/ ~upload.unrealized.present

\* the handler up to the resumption after "await processAndGenerateFiles"
ProcessFilesStart(r, upload, outcomes) ==
    /\ pc[r] = "idle"
    /\ files' = [files EXCEPT ![r] = upload]
    /\ IF filesMissing(upload)
       THEN /\ response' = [response EXCEPT ![r] = missingFilesResponse]
            /\ pc' = [pc EXCEPT ![r] = "responded"]
            /\ UNCHANGED <<vintageData, results>>
       ELSE LET generated == processAndGenerateFiles(upload.realized.buffer,
                                                     upload.unrealized.buffer,
                                                     upload.columns, outcomes)
            IN  IF generated.threw
                THEN /\ response' = [response EXCEPT ![r] = catchResponse(generated)]
                     /\ pc' = [pc EXCEPT ![r] = "responded"]
                     /\ UNCHANGED <<vintageData, results>>
                ELSE /\ vintageData' = [vintageData EXCEPT ![r] = generated.value.vintageData]
                     /\ results' = [results EXCEPT ![r] = generated.value.results]
                     /\ pc' = [pc EXCEPT ![r] = "storing"]
                     /\ UNCHANGED response
    /\ UNCHANGED <<vintageFiles, cursor, stored>>

\* one iteration of the store loop, up to its await
StoreVintage(r, outcome) ==
    /\ pc[r] = "storing"
    /\ cursor[r] <= Len(vintageData[r])
    /\ LET vintage == vintageData[r][cursor[r]]
           generated == generateVintageExcel(vintage, files[r].columns, outcome)
       IN  IF generated.threw
           THEN /\ response' = [response EXCEPT ![r] = catchResponse(generated)]
                /\ pc' = [pc EXCEPT ![r] = "responded"]
                /\ UNCHANGED <<vintageFiles, cursor, stored>>
           ELSE /\ vintageFiles' = storeVintageFile(vintageFiles, vintage.vintageName,
                                                   generated.value)
                /\ stored' = [stored EXCEPT ![r] = Append(@, generated.value)]
                /\ cursor' = [cursor EXCEPT ![r] = @ + 1]
                /\ UNCHANGED <<response, pc>>
    /\ UNCHANGED <<files, vintageData, results>>

\* after the last iteration: res.json
Respond(r) ==
    /\ pc[r] = "storing"
    /\ cursor[r] > Len(vintageData[r])
    /\ response' = [response EXCEPT ![r] = successResponse(results[r])]
    /\ pc' = [pc EXCEPT ![r] = "responded"]
    /\ UNCHANGED <<vintageFiles, files, vintageData, results, cursor, stored>>

----------------------------------------------------------------------------
(* ExcelJS variant *)

\* ExcelJS variant: the first worksheet's rows, or the no-sheet error
readExcelBuffer(buffer) ==
    IF Len(buffer) = 0 THEN Throw("Excel file has no sheets") ELSE Return(buffer[1])

\* ExcelJS variant of processFiles
processFilesExcelJS(realizedBuffer, unrealizedBuffer) ==
    LET realizedRead   == readExcelBuffer(realizedBuffer)
        unrealizedRead == readExcelBuffer(unrealizedBuffer)
    IN  IF realizedRead.threw THEN realizedRead
        ELSE IF unrealizedRead.threw THEN unrealizedRead
        ELSE LET realizedData       == realizedRead.value
                 unrealizedData     == unrealizedRead.value
                 realizedVintages   == extractVintages(realizedData)
                 unrealizedVintages == extractVintages(unrealizedData)
             IN  IF Len(realizedVintages) = 0
                 THEN Throw("Realized Excel file does not contain a 'Vintage' column")
                 ELSE IF Len(unrealizedVintages) = 0
                 THEN Throw("Unrealized Excel file does not contain a 'Vintage' column")
                 ELSE Return(partitionAndSort(realizedData, unrealizedData,
                                 allVintagesOf(realizedVintages, unrealizedVintages)))

\* ExcelJS variant: a sheet gets a header row only when it has rows, the
\* header is Object.keys of the first row, and each row is written as
\* headers.map(header => row[header])
addRows(rows, columns) ==
    LET headers == IF Len(rows) > 0 THEN ObjectKeys(rows[1], columns) ELSE <<>>
    IN  [header |-> headers,
         data   |-> [i \in 1..Len(rows) |->
                        [c \in 1..Len(headers) |-> Get(rows[i], headers[c])]]]

\* ExcelJS variant of generateVintageExcel; writeBuffer is the serializer
generateVintageExcelJS(vintage, columns, outcome) ==
    write(<< [name |-> "Realized",
              header |-> addRows(vintage.realizedRows, columns.realized).header,
              data |-> addRows(vintage.realizedRows, columns.realized).data],
             [name |-> "Unrealized",
              header |-> addRows(vintage.unrealizedRows, columns.unrealized).header,
              data |-> addRows(vintage.unrealizedRows, columns.unrealized).data],
             createInitialPurchaseSheetTable(vintage.realizedRows) >>,
          outcome)

----------------------------------------------------------------------------
(* Inputs of the partitioning runs *)

\* rows of the two input tables together
MaxRows == 4

sAAPL == <<65, 65, 80, 76>>

sCQ1 == <<67, 81, 49>>

sCQ1Padded == <<32, 32, 67, 81, 49, 32, 32>>

sCq1Lower == <<99, 113, 49>>

sCQ2 == <<67, 81, 50>>

sCQ10 == <<67, 81, 49, 48>>

sBlank == <<32, 32>>

\* the vintage-related cells a row may carry
VintageShapes ==
    { [Symbol |-> sAAPL],
      [Vintage |-> sCQ1],
      [Vintage |-> sCQ1Padded],
      [Vintage |-> sCq1Lower],
      [Vintage |-> sBlank],
      [Vintage |-> <<>>, vintage |-> sCQ2],
      [Vintage |-> sCQ10, vintage |-> sCQ2] }

\* a row object: its cells, plus its identity (source table and row number)
MkRow(shape, src, n) ==
    [k \in DOMAIN shape \cup {"src", "rowNum"} |->
        IF k = "src" THEN src ELSE IF k = "rowNum" THEN n ELSE shape[k]]

SheetsOf(src, maxRows) ==
    UNION { { [n \in 1..len |-> MkRow(shapes[n], src, n)] :
                shapes \in [1..len -> VintageShapes] } : len \in 0..maxRows }

\* a workbook with no sheet, or with one sheet
WorkbooksOf(src, maxRows) == {<<>>} \cup { <<sheet>> : sheet \in SheetsOf(src, maxRows) }

RowCount(workbook) == IF Len(workbook) = 0 THEN 0 ELSE Len(workbook[1])

NotRun == [threw |-> FALSE, message |-> "not run", value |-> <<>>]

----------------------------------------------------------------------------
(* Inputs of the symbol derivation *)

MaxSymbolRows == 3

sAAPLPadded == <<32, 65, 65, 80, 76, 32>>

sMSFT == <<77, 83, 70, 84>>

sAaplLower == <<97, 97, 112, 108>>

\* the Symbol cell a realized row may carry
SymbolShapes ==
    { [Vintage |-> sCQ1],
      [Vintage |-> sCQ1, Symbol |-> <<>>],
      [Vintage |-> sCQ1, Symbol |-> sBlank],
      [Vintage |-> sCQ1, Symbol |-> sAAPL],
      [Vintage |-> sCQ1, Symbol |-> sAAPLPadded],
      [Vintage |-> sCQ1, Symbol |-> sMSFT],
      [Vintage |-> sCQ1, Symbol |-> sAaplLower] }

SymbolRowSets ==
    UNION { { [n \in 1..len |-> MkRow(shapes[n], "realized", n)] :
                shapes \in [1..len -> SymbolShapes] } : len \in 0..MaxSymbolRows }

----------------------------------------------------------------------------
(* Inputs of the workbook generation *)

\* rows of the partition's two row sets together
MaxGenRows == 3

sCell == <<120>>

\* column orders of an input sheet: Symbol first, Symbol second, Symbol seventh
ColumnOrders ==
    { <<"Symbol", "Date", "Vintage", "Note">>,
      <<"Vintage", "Symbol", "Note">>,
      <<"Account", "Vintage", "Fund", "Name", "Lot", "Date", "Symbol", "Note">> }

\* the columns a row of a sheet may have cells in: all of them, or all but
\* Note, Symbol or both
KeySets(columns) ==
    LET all == {columns[i] : i \in 1..Len(columns)}
    IN  { all, all \ {"Note"}, all \ {"Symbol"}, all \ {"Symbol", "Note"} }

\* the cells of a row of the partition named CQ1
GenShapes(columns) ==
    { [k \in keys |-> IF k = "Vintage" THEN sCQ1 ELSE IF k = "Symbol" THEN symbol ELSE sCell] :
        keys \in KeySets(columns), symbol \in {sAAPL, sMSFT} }

GenRowsOf(src, columns, maxRows) ==
    UNION { { [n \in 1..len |-> MkRow(shapes[n], src, n)] :
                shapes \in [1..len -> GenShapes(columns)] } : len \in 0..maxRows }

----------------------------------------------------------------------------
(* Inputs of the keyed store and of the download requests *)

\* calls made on the store
MaxCalls == 4

\* "50%"
sHalf == <<53, 48, 37>>

\* "CQ%31", which decodeURIComponent turns into "CQ1"
sCQ1Escaped == <<67, 81, 37, 51, 49>>

\* vintage names processing stores workbooks under
StoreNames == {sCQ1, sHalf}

\* two serializations of a workbook
StoreBuffers ==
    { write(vintageWorkbook([vintageName |-> sCQ1, realizedRows |-> <<>>,
                             unrealizedRows |-> <<>>],
                            [realized |-> <<>>, unrealized |-> <<>>]),
            [threw |-> FALSE, stamp |-> stamp]).value : stamp \in {0, 1} }

\* req.params.vintageName of a download request
DownloadParams == {sCQ1, sHalf, sCQ10, sCQ1Escaped}

----------------------------------------------------------------------------
(* Inputs of the repeated partitioning run *)

\* rows of the two input tables together
MaxRerunRows == 3

\* the column order of the two input sheets
RerunColumns == <<"Vintage", "vintage", "Symbol">>

\* every XLSX.write call of the run succeeds
AllWritten == [k \in 1..MaxRerunRows + 1 |-> [threw |-> FALSE, stamp |-> 0]]

----------------------------------------------------------------------------
(* Inputs of the run that partitions two tables and renders a partition *)

\* rows of the two input tables together
MaxPipelineRows == 4

\* the cells a row may carry: two spellings of CQ1, CQ2 under the lower-case
\* key, no vintage
PipelineShapes ==
    { [Vintage |-> sCQ1, Symbol |-> sAAPL],
      [Vintage |-> sCQ1Padded, Symbol |-> sMSFT],
      [Vintage |-> <<>>, vintage |-> sCQ2],
      [Symbol |-> sAAPL] }

PipelineSheetsOf(src, maxRows) ==
    UNION { { [n \in 1..len |-> MkRow(shapes[n], src, n)] :
                shapes \in [1..len -> PipelineShapes] } : len \in 0..maxRows }

----------------------------------------------------------------------------
(* Inputs of the validation runs: header spellings and defective workbooks *)

\* rows of the two input tables together
MaxValidationRows == 3

\* the cells a row may carry: the vintage under the upper-case spelling
\* only, under either recognised spelling, under both kinds, or not at all
ValidationShapes ==
    { [VINTAGE |-> sCQ1],
      [Vintage |-> sCQ1],
      [vintage |-> sCQ2],
      [VINTAGE |-> sCQ2, vintage |-> sCQ1],
      [Symbol |-> sAAPL] }

ValidationSheetsOf(src, maxRows) ==
    UNION { { [n \in 1..len |-> MkRow(shapes[n], src, n)] :
                shapes \in [1..len -> ValidationShapes] } : len \in 0..maxRows }

\* a workbook with no sheet, or with one sheet
ValidationWorkbooksOf(src, maxRows) ==
    {<<>>} \cup { <<sheet>> : sheet \in ValidationSheetsOf(src, maxRows) }

----------------------------------------------------------------------------
(* Inputs of the server *)

Requests == {1, 2}

MissingFile == [present |-> FALSE, buffer |-> <<>>]

UploadedFile(workbook) == [present |-> TRUE, buffer |-> workbook]

SheetNoVintage == << MkRow([Symbol |-> sAAPL], "upload", 1) >>

SheetTwoVintages ==
    << MkRow([Vintage |-> sCQ1, Symbol |-> sMSFT], "upload", 1),
       MkRow([Vintage |-> sCQ2, Symbol |-> sAAPL], "upload", 2) >>

SheetOneVintage == << MkRow([Vintage |-> sCQ1, Symbol |-> sAAPL], "upload", 1) >>

\* req.files.realized[0] and req.files.unrealized[0]: absent, a workbook
\* without sheets, or a workbook with one sheet
UploadedFiles ==
    { MissingFile, UploadedFile(<<>>), UploadedFile(<<SheetNoVintage>>),
      UploadedFile(<<SheetTwoVintages>>), UploadedFile(<<SheetOneVintage>>) }

\* the column order of the first sheet of an uploaded workbook
UploadColumns == <<"Vintage", "Symbol">>

Uploads ==
    [realized : UploadedFiles, unrealized : UploadedFiles,
     columns : {[realized |-> UploadColumns, unrealized |-> UploadColumns]}]

NoUpload ==
    [realized |-> MissingFile, unrealized |-> MissingFile,
     columns |-> [realized |-> <<>>, unrealized |-> <<>>]]

\* the partitions an upload yields, none when a file is missing or rejected
PartitionsOf(upload) ==
    IF filesMissing(upload) THEN <<>>
    ELSE processFiles(upload.realized.buffer, upload.unrealized.buffer).value

----------------------------------------------------------------------------
(* Specifications *)

PartitionIdle ==
    /\ realizedWorkbook = <<>>
    /\ unrealizedWorkbook = <<>>
    /\ impl = "none"
    /\ out = NotRun
    /\ outAgain = NotRun

GenerateIdle ==
    /\ genColumns = [realized |-> <<>>, unrealized |-> <<>>]
    /\ genVintage = [vintageName |-> <<>>, realizedRows |-> <<>>, unrealizedRows |-> <<>>]
    /\ generator = "none"
    /\ genWrite = [threw |-> FALSE, stamp |-> 0]
    /\ genBuffer = NotRun
    /\ genResult = <<>>

StorageIdle ==
    /\ calls = <<>>
    /\ got = Undefined
    /\ download = NoDownload

SymbolsIdle ==
    /\ realizedRows = <<>>
    /\ derived = FALSE
    /\ uniqueSymbols = <<>>

\* the server after registerRoutes: an empty store, no request handled yet
ServerInit ==
    /\ vintageFiles = <<>>
    /\ pc = [r \in Requests |-> "idle"]
    /\ files = [r \in Requests |-> NoUpload]
    /\ vintageData = [r \in Requests |-> <<>>]
    /\ results = [r \in Requests |-> <<>>]
    /\ cursor = [r \in Requests |-> 1]
    /\ stored = [r \in Requests |-> <<>>]
    /\ response = [r \in Requests |-> NoResponse]

InitPartition ==
    /\ SymbolsIdle
    /\ ServerInit
    /\ GenerateIdle
    /\ StorageIdle
    /\ realizedWorkbook \in WorkbooksOf("realized", MaxRows)
    /\ unrealizedWorkbook \in WorkbooksOf("unrealized", MaxRows - RowCount(realizedWorkbook))
    /\ impl = "none"
    /\ out = NotRun
    /\ outAgain = NotRun

RunProcessFiles ==
    /\ impl = "none"
    /\ impl' = "xlsx"
    /\ out' = processFiles(realizedWorkbook, unrealizedWorkbook)
    /\ UNCHANGED <<realizedWorkbook, unrealizedWorkbook, outAgain, symbolVars, serverVars,
                   generateVars, storageVars>>

RunProcessFilesExcelJS ==
    /\ impl = "none"
    /\ impl' = "exceljs"
    /\ out' = processFilesExcelJS(realizedWorkbook, unrealizedWorkbook)
    /\ UNCHANGED <<realizedWorkbook, unrealizedWorkbook, outAgain, symbolVars, serverVars,
                   generateVars, storageVars>>

NextPartition == RunProcessFiles \/ RunProcessFilesExcelJS

SpecPartition == InitPartition /\ [][NextPartition]_vars

InitSymbols ==
    /\ PartitionIdle
    /\ ServerInit
    /\ GenerateIdle
    /\ StorageIdle
    /\ realizedRows \in SymbolRowSets
    /\ derived = FALSE
    /\ uniqueSymbols = <<>>

RunGetUniqueSymbols ==
    /\ ~derived
    /\ derived' = TRUE
    /\ uniqueSymbols' = getUniqueSymbols(realizedRows)
    /\ UNCHANGED <<realizedRows, partitionVars, serverVars, generateVars, storageVars>>

NextSymbols == RunGetUniqueSymbols

SpecSymbols == InitSymbols /\ [][NextSymbols]_vars

\* a partition as processFiles emits it: rows of one vintage, at least one
InitGenerate ==
    /\ PartitionIdle
    /\ SymbolsIdle
    /\ ServerInit
    /\ StorageIdle
    /\ \E order \in ColumnOrders : genColumns = [realized |-> order, unrealized |-> order]
    /\ \E realized \in GenRowsOf("realized", genColumns.realized, MaxGenRows) :
       \E unrealized \in GenRowsOf("unrealized", genColumns.unrealized,
                                    MaxGenRows - Len(realized)) :
           /\ Len(realized) + Len(unrealized) > 0
           /\ genVintage = [vintageName |-> sCQ1, realizedRows |-> realized,
                            unrealizedRows |-> unrealized]
    /\ generator = "none"
    /\ genWrite = [threw |-> FALSE, stamp |-> 0]
    /\ genBuffer = NotRun
    /\ genResult = <<>>

\* one pass of the callback of processAndGenerateFiles: build, serialize, summarize
Generated(name, built, outcome) ==
    /\ generator = "none"
    /\ generator' = name
    /\ genWrite' = outcome
    /\ genBuffer' = built
    /\ genResult' = IF built.threw THEN <<>> ELSE <<vintageResult(genVintage, built.value)>>
    /\ UNCHANGED <<genColumns, genVintage, partitionVars, symbolVars, serverVars, storageVars>>

RunGenerateVintageExcel ==
    \E outcome \in WriteOutcomes :
        Generated("xlsx", generateVintageExcel(genVintage, genColumns, outcome), outcome)

RunGenerateVintageExcelTable ==
    \E outcome \in WriteOutcomes :
        Generated("table", generateVintageExcelTable(genVintage, genColumns, outcome), outcome)

RunGenerateVintageExcelJS ==
    \E outcome \in WriteOutcomes :
        Generated("exceljs", generateVintageExcelJS(genVintage, genColumns, outcome), outcome)

NextGenerate ==
    RunGenerateVintageExcel \/ RunGenerateVintageExcelTable \/ RunGenerateVintageExcelJS

SpecGenerate == InitGenerate /\ [][NextGenerate]_vars

\* the storage singleton after construction, no call made yet
InitStorage ==
    /\ PartitionIdle
    /\ SymbolsIdle
    /\ GenerateIdle
    /\ ServerInit
    /\ StorageIdle

StoreCall ==
    \E vintageName \in StoreNames, buffer \in StoreBuffers :
        /\ Len(calls) < MaxCalls
        /\ vintageFiles' = storeVintageFile(vintageFiles, vintageName, buffer)
        /\ calls' = Append(calls, [op |-> "store", key |-> vintageName, buffer |-> buffer])
        /\ UNCHANGED <<got, download>>

GetCall ==
    \E vintageName \in StoreNames :
        /\ Len(calls) < MaxCalls
        /\ got' = getVintageFile(vintageFiles, vintageName)
        /\ calls' = Append(calls, [op |-> "get", key |-> vintageName, buffer |-> Undefined])
        /\ UNCHANGED <<vintageFiles, download>>

ClearCall ==
    /\ Len(calls) < MaxCalls
    /\ vintageFiles' = clearVintageFiles(vintageFiles)
    /\ calls' = Append(calls, [op |-> "clear", key |-> <<>>, buffer |-> Undefined])
    /\ UNCHANGED <<got, download>>

\* GET /api/download/:vintageName
Download ==
    \E param \in DownloadParams :
        /\ Len(calls) < MaxCalls
        /\ download' = downloadResponse(vintageFiles, param)
        /\ calls' = Append(calls, [op |-> "download", key |-> param, buffer |-> Undefined])
        /\ UNCHANGED <<vintageFiles, got>>

StorageUnchanged ==
    UNCHANGED <<pc, files, vintageData, results, cursor, stored, response,
                partitionVars, symbolVars, generateVars>>

NextStorage ==
    \/ StoreCall /\ StorageUnchanged
    \/ GetCall /\ StorageUnchanged
    \/ ClearCall /\ StorageUnchanged
    \/ Download /\ StorageUnchanged

SpecStorage == InitStorage /\ [][NextStorage]_vars

InitRerun ==
    /\ SymbolsIdle
    /\ ServerInit
    /\ GenerateIdle
    /\ StorageIdle
    /\ realizedWorkbook \in WorkbooksOf("realized", MaxRerunRows)
    /\ unrealizedWorkbook \in WorkbooksOf("unrealized",
                                           MaxRerunRows - RowCount(realizedWorkbook))
    /\ impl = "none"
    /\ out = NotRun
    /\ outAgain = NotRun

\* the same two buffers processed once more, by the processFiles call that
\* processAndGenerateFiles starts with
RunProcessFilesAgain ==
    /\ impl = "xlsx"
    /\ outAgain = NotRun
    /\ LET again == processAndGenerateFiles(realizedWorkbook, unrealizedWorkbook,
                         [realized |-> RerunColumns, unrealized |-> RerunColumns],
                         AllWritten)
       IN  outAgain' = IF again.threw THEN again ELSE Return(again.value.vintageData)
    /\ UNCHANGED <<realizedWorkbook, unrealizedWorkbook, impl, out, symbolVars, serverVars,
                   generateVars, storageVars>>

NextRerun == RunProcessFiles \/ RunProcessFilesAgain

SpecRerun == InitRerun /\ [][NextRerun]_vars

\* two uploaded tables, each with one sheet
InitPipeline ==
    /\ SymbolsIdle
    /\ ServerInit
    /\ GenerateIdle
    /\ StorageIdle
    /\ \E sheet \in PipelineSheetsOf("realized", MaxPipelineRows) :
           realizedWorkbook = <<sheet>>
    /\ \E sheet \in PipelineSheetsOf("unrealized",
                                     MaxPipelineRows - RowCount(realizedWorkbook)) :
           unrealizedWorkbook = <<sheet>>
    /\ impl = "none"
    /\ out = NotRun
    /\ outAgain = NotRun

\* one pass of the callback of processAndGenerateFiles over the partitions
\* processFiles returned: the k-th partition is built, serialized, summarized
PartitionGenerated(name, k, built, outcome) ==
    /\ generator = "none"
    /\ generator' = name
    /\ genColumns' = [realized |-> RerunColumns, unrealized |-> RerunColumns]
    /\ genVintage' = out.value[k]
    /\ genWrite' = outcome
    /\ genBuffer' = built
    /\ genResult' = IF built.threw THEN <<>> ELSE <<vintageResult(out.value[k], built.value)>>
    /\ UNCHANGED <<partitionVars, symbolVars, serverVars, storageVars>>

GeneratePartition ==
    /\ impl = "xlsx" /\ ~out.threw
    /\ \E k \in 1..Len(out.value), outcome \in WriteOutcomes :
           PartitionGenerated("xlsx", k,
               generateVintageExcel(out.value[k],
                   [realized |-> RerunColumns, unrealized |-> RerunColumns], outcome),
               outcome)

GeneratePartitionTable ==
    /\ impl = "xlsx" /\ ~out.threw
    /\ \E k \in 1..Len(out.value), outcome \in WriteOutcomes :
           PartitionGenerated("table", k,
               generateVintageExcelTable(out.value[k],
                   [realized |-> RerunColumns, unrealized |-> RerunColumns], outcome),
               outcome)

GeneratePartitionJS ==
    /\ impl = "exceljs" /\ ~out.threw
    /\ \E k \in 1..Len(out.value), outcome \in WriteOutcomes :
           PartitionGenerated("exceljs", k,
               generateVintageExcelJS(out.value[k],
                   [realized |-> RerunColumns, unrealized |-> RerunColumns], outcome),
               outcome)

NextPipeline ==
    \/ RunProcessFiles
    \/ RunProcessFilesExcelJS
    \/ GeneratePartition
    \/ GeneratePartitionTable
    \/ GeneratePartitionJS

SpecPipeline == InitPipeline /\ [][NextPipeline]_vars

InitValidation ==
    /\ SymbolsIdle
    /\ ServerInit
    /\ GenerateIdle
    /\ StorageIdle
    /\ realizedWorkbook \in ValidationWorkbooksOf("realized", MaxValidationRows)
    /\ unrealizedWorkbook \in ValidationWorkbooksOf("unrealized",
                                 MaxValidationRows - RowCount(realizedWorkbook))
    /\ impl = "none"
    /\ out = NotRun
    /\ outAgain = NotRun

NextValidation == RunProcessFiles \/ RunProcessFilesExcelJS

SpecValidation == InitValidation /\ [][NextValidation]_vars

Init ==
    /\ PartitionIdle
    /\ SymbolsIdle
    /\ GenerateIdle
    /\ StorageIdle
    /\ ServerInit

ProcessFiles ==
    \E r \in Requests, upload \in Uploads :
        \E outcomes \in [1..Len(PartitionsOf(upload)) -> WriteOutcomes] :
            /\ ProcessFilesStart(r, upload, outcomes)
            /\ UNCHANGED <<partitionVars, symbolVars, generateVars, storageVars>>

StoreLoop ==
    \E r \in Requests, outcome \in WriteOutcomes :
        /\ StoreVintage(r, outcome)
        /\ UNCHANGED <<partitionVars, symbolVars, generateVars, storageVars>>

SendResponse ==
    \E r \in Requests :
        /\ Respond(r)
        /\ UNCHANGED <<partitionVars, symbolVars, generateVars, storageVars>>

Next == ProcessFiles \/ StoreLoop \/ SendResponse

Spec == Init /\ [][Next]_vars

----------------------------------------------------------------------------
(* Claims about partitioning, checked under SpecPartition *)

\* processFiles has run and returned its partitions
Succeeded == impl # "none" /\ ~out.threw

\* a row carries a vintage value that is non-empty after trimming
HasVintage(row) == VintageOf(row).t = "string" /\ Trim(VintageOf(row).s) # <<>>

\* how many times the row object occurs in the given row set of all partitions
Occurrences(partitions, side, row) ==
    Cardinality({ki \in (1..Len(partitions)) \X (1..MaxRows + 1) :
                    /\ ki[2] <= Len(partitions[ki[1]][side])
                    /\ partitions[ki[1]][side][ki[2]] = row})

\* the row is in its own row set of exactly one partition, the one named by
\* its trimmed vintage value, and in no row set of the other kind
GroupedOnce(partitions, side, other, row) ==
    /\ Occurrences(partitions, side, row) = 1
    /\ Occurrences(partitions, other, row) = 0
    /\ \A k \in 1..Len(partitions) :
           (\E i \in 1..Len(partitions[k][side]) : partitions[k][side][i] = row)
               => partitions[k].vintageName = Trim(VintageOf(row).s)

InNoPartition(partitions, row) ==
    /\ Occurrences(partitions, "realizedRows", row) = 0
    /\ Occurrences(partitions, "unrealizedRows", row) = 0

\* C2: a row without a vintage field, or whose vintage value is empty after
\* trimming (whitespace-only included), is in no partition's row set, and no
\* partition has an empty vintageName.
C2_BlankVintageRowsExcluded ==
    Succeeded =>
        /\ \A n \in 1..Len(realizedWorkbook[1]) :
               ~HasVintage(realizedWorkbook[1][n]) =>
                   InNoPartition(out.value, realizedWorkbook[1][n])
        /\ \A n \in 1..Len(unrealizedWorkbook[1]) :
               ~HasVintage(unrealizedWorkbook[1][n]) =>
                   InNoPartition(out.value, unrealizedWorkbook[1][n])
        /\ \A k \in 1..Len(out.value) : out.value[k].vintageName # <<>>

\* C3 as stated: partitions are strictly ascending by vintageName in code
\* unit order, also for names that differ only in letter case.
C3_AscendingCodeUnitOrder ==
    Succeeded =>
        \A k \in 1..Len(out.value) - 1 :
            CodeUnitCompare(out.value[k].vintageName, out.value[k + 1].vintageName) < 0

\* C3 amended: partitions are in the order of localeCompare (collation
\* order: letter case only breaks ties, lower case first), and no two
\* partitions share a vintageName.
C3_AscendingLocaleOrder ==
    Succeeded =>
        /\ \A k \in 1..Len(out.value) - 1 :
               localeCompare(out.value[k].vintageName, out.value[k + 1].vintageName) <= 0
        /\ \A j, k \in 1..Len(out.value) :
               out.value[j].vintageName = out.value[k].vintageName => j = k

\* C3 witness: CQ1 and cq1 are both emitted, cq1 first
C3_Witness ==
    /\ impl = "xlsx" /\ ~out.threw
    /\ \E k \in 1..Len(out.value) - 1 :
           /\ out.value[k].vintageName = sCq1Lower
           /\ out.value[k + 1].vintageName = sCQ1

\* no row of the workbook's first sheet has a non-empty trimmed vintage value
NoVintageRows(workbook) == \A n \in 1..Len(workbook[1]) : ~HasVintage(workbook[1][n])

\* C4: a table with no row of non-empty trimmed vintage value (column absent,
\* empty or whitespace-only) makes processing fail with the missing-Vintage-
\* column error naming that input.
C4_NoVintageRowsRejected ==
    (impl # "none" /\ Len(realizedWorkbook) > 0 /\ Len(unrealizedWorkbook) > 0) =>
        /\ NoVintageRows(realizedWorkbook) =>
               /\ out.threw
               /\ out.message = "Realized Excel file does not contain a 'Vintage' column"
        /\ (~NoVintageRows(realizedWorkbook) /\ NoVintageRows(unrealizedWorkbook)) =>
               /\ out.threw
               /\ out.message = "Unrealized Excel file does not contain a 'Vintage' column"

\* C5: a workbook with zero sheets makes processing fail with a no-sheet
\* error that identifies which input was empty, in the SheetJS-based and in
\* the ExcelJS-based implementation.
C5_NoSheetErrorNamesInput ==
    impl # "none" =>
        /\ Len(realizedWorkbook) = 0 =>
               out.threw /\ out.message = "Realized Excel file has no sheets"
        /\ (Len(realizedWorkbook) > 0 /\ Len(unrealizedWorkbook) = 0) =>
               out.threw /\ out.message = "Unrealized Excel file has no sheets"

\* the elements of a sequence
Range(seq) == {seq[i] : i \in 1..Len(seq)}

\* the vintage values collected from a workbook's first sheet
VintageSet(workbook) == Range(extractVintages(workbook[1]))

\* C6: the partition names are the union of the two inputs' vintage sets,
\* and a vintage of only one input has an empty row set for the other.
C6_UnionCoverage ==
    Succeeded =>
        /\ {out.value[k].vintageName : k \in 1..Len(out.value)}
               = VintageSet(realizedWorkbook) \cup VintageSet(unrealizedWorkbook)
        /\ \A k \in 1..Len(out.value) :
               /\ out.value[k].vintageName \notin VintageSet(realizedWorkbook)
                      => out.value[k].realizedRows = <<>>
               /\ out.value[k].vintageName \notin VintageSet(unrealizedWorkbook)
                      => out.value[k].unrealizedRows = <<>>
               /\ out.value[k].vintageName \in VintageSet(realizedWorkbook)
                      => out.value[k].realizedRows # <<>>
               /\ out.value[k].vintageName \in VintageSet(unrealizedWorkbook)
                      => out.value[k].unrealizedRows # <<>>

\* C6 witness: CQ2 occurs only in the unrealized input and is emitted with
\* realizedRows = []
C6_Witness ==
    /\ impl = "xlsx" /\ ~out.threw
    /\ sCQ2 \notin VintageSet(realizedWorkbook)
    /\ \E k \in 1..Len(out.value) :
           /\ out.value[k].vintageName = sCQ2
           /\ out.value[k].realizedRows = <<>>
           /\ Len(out.value[k].unrealizedRows) > 0

----------------------------------------------------------------------------
(* Claims about the process-files endpoint, checked under Spec *)

\* C7: there is no partial success: processAndGenerateFiles returns a result
\* for every partition or none at all, and a response carries a vintages
\* list only when nothing failed, and then one covering every partition.
C7_NoPartialSuccess ==
    \A r \in Requests :
        /\ results[r] # <<>> => Len(results[r]) = Len(PartitionsOf(files[r]))
        /\ pc[r] = "responded" =>
               IF response[r].status = 200
               THEN /\ response[r].hasVintages
                    /\ Len(response[r].vintages) = Len(PartitionsOf(files[r]))
                    /\ Len(response[r].vintages) > 0
               ELSE /\ ~response[r].hasVintages
                    /\ response[r].vintages = <<>>

\* C7 witness: an upload with two vintages whose workbook building failed
\* inside processAndGenerateFiles was answered without a vintages list
C7_Witness ==
    \E r \in Requests :
        /\ pc[r] = "responded"
        /\ Len(PartitionsOf(files[r])) = 2
        /\ vintageData[r] = <<>>
        /\ response[r].message = "Failed to write workbook"
        /\ ~response[r].hasVintages

\* the errors of input validation: zero sheets, no Vintage column
ValidationMessages ==
    { "Realized Excel file has no sheets",
      "Unrealized Excel file has no sheets",
      "Realized Excel file does not contain a 'Vintage' column",
      "Unrealized Excel file does not contain a 'Vintage' column" }

\* C8 as stated: a validation-class error is answered with a 4xx status,
\* every other failure with a 5xx status, always with a message.
C8_ValidationErrorsAreClientErrors ==
    \A r \in Requests :
        (pc[r] = "responded" /\ response[r].status # 200) =>
            /\ response[r].message # ""
            /\ IF \/ filesMissing(files[r])
                  \/ response[r].message \in ValidationMessages
               THEN response[r].status \in 400..499
               ELSE response[r].status \in 500..599

\* C8 amended: only a request that lacks a file is answered with 400; every
\* error thrown while processing, the zero-sheet and missing-Vintage-column
\* errors included, is answered with 500 and the error's message; every
\* response carries a message.
C8_ProcessingErrorsAreServerErrors ==
    \A r \in Requests :
        pc[r] = "responded" =>
            /\ response[r].message # ""
            /\ response[r].status \in {200, 400, 500}
            /\ response[r].status = 400 <=> filesMissing(files[r])
            /\ response[r].message \in ValidationMessages => response[r].status = 500
            /\ (~filesMissing(files[r])
                   /\ processFiles(files[r].realized.buffer,
                                   files[r].unrealized.buffer).threw) =>
                   /\ response[r].status = 500
                   /\ response[r].message
                          = processFiles(files[r].realized.buffer,
                                         files[r].unrealized.buffer).message

\* C8 witness: a missing Vintage column was answered with status 500
C8_Witness ==
    \E r \in Requests :
        /\ pc[r] = "responded"
        /\ response[r].status = 500
        /\ response[r].message = "Unrealized Excel file does not contain a 'Vintage' column"

\* C9: for every vintage of a successful request, the fileSize in the
\* response is the byte length of the buffer the request put in the store
\* under that vintage name.
C9_FileSizeIsStoredLength ==
    \A r \in Requests :
        (pc[r] = "responded" /\ response[r].status = 200) =>
            \A k \in 1..Len(response[r].vintages) :
                response[r].vintages[k].fileSize = byteLength(stored[r][k])

----------------------------------------------------------------------------
(* Claims about the symbol list, checked under SpecSymbols *)

\* the distinct trimmed non-empty Symbol values of a row set
TrimmedSymbols(rows) ==
    { Trim(rows[n].Symbol) :
        n \in {m \in 1..Len(rows) : "Symbol" \in DOMAIN rows[m]
                                    /\ Trim(rows[m].Symbol) # <<>>} }

\* C10: the symbol list holds exactly the distinct trimmed Symbol values,
\* holds no empty string (absent, empty and whitespace-only Symbol cells
\* contribute nothing) and is strictly ascending in code unit order.
C10_SymbolListExact ==
    derived =>
        /\ Range(uniqueSymbols) = TrimmedSymbols(realizedRows)
        /\ <<>> \notin Range(uniqueSymbols)
        /\ \A k \in 1..Len(uniqueSymbols) - 1 :
               CodeUnitCompare(uniqueSymbols[k], uniqueSymbols[k + 1]) < 0

----------------------------------------------------------------------------
(* Claims about workbook generation, checked under SpecGenerate *)

\* a generateVintageExcel has run and returned a buffer
Built == generator # "none" /\ ~genBuffer.threw

\* the sheets of the workbook in the returned buffer
SheetsBuilt == genBuffer.value.workbook

InitialPurchaseHeader == <<"Symbol", "First Purchase Date", "Initial Amount">>

IsFormulaCell(cell) == "f" \in DOMAIN cell

\* C11: in every generated workbook the Initial Purchase sheet has the fixed
\* three-column header as its first row, then exactly one row per derived
\* symbol whose columns 2 and 3 are formula cells; with zero symbols the
\* sheet is the header row only.
C11_InitialPurchaseLayout ==
    Built =>
        LET sheet   == SheetsBuilt[3]
            symbols == getUniqueSymbols(genVintage.realizedRows)
        IN  /\ sheet.header = InitialPurchaseHeader
            /\ Len(sheet.data) = Len(symbols)
            /\ \A i \in 1..Len(sheet.data) :
                   /\ sheet.data[i].A = symbols[i]
                   /\ IsFormulaCell(sheet.data[i].B)
                   /\ IsFormulaCell(sheet.data[i].C)

\* the number of the sheet column a whole-column range of the Realized sheet names
ColumnNumber(range) ==
    CASE range = "Realized!A:A" -> 1
      [] range = "Realized!G:G" -> 7
      [] OTHER -> 0

\* C12: the column the Initial Purchase formulas use as the symbol-match
\* range of the Realized sheet is the column in which the generated Realized
\* sheet renders the Symbol field, for every partition and column order.
C12_SymbolRangeIsSymbolColumn ==
    Built =>
        \A i \in 1..Len(SheetsBuilt[3].data) :
            \A cell \in {SheetsBuilt[3].data[i].B, SheetsBuilt[3].data[i].C} :
                /\ ColumnNumber(cell.symbolRange) \in 1..Len(SheetsBuilt[1].header)
                /\ SheetsBuilt[1].header[ColumnNumber(cell.symbolRange)] = "Symbol"

Rendered(sheet, rows, columns) ==
    /\ Len(sheet.data) = Len(rows)
    /\ \A i \in 1..Len(rows) :
           \A k \in Range(ObjectKeys(rows[i], columns)) :
               \E c \in 1..Len(sheet.header) :
                   /\ sheet.header[c] = k
                   /\ sheet.data[i][c] = Str(rows[i][k])

\* C14: every field of every row of a partition is rendered in the
\* corresponding sheet, a column absent from the partition's first row
\* included.
C14_EveryFieldRendered ==
    Built =>
        /\ Rendered(SheetsBuilt[1], genVintage.realizedRows, genColumns.realized)
        /\ Rendered(SheetsBuilt[2], genVintage.unrealizedRows, genColumns.unrealized)

\* C18: generating a workbook for a partition with an empty realized or
\* unrealized row set raises no error (it fails only if the serializer
\* does), yields a sheet of that name without data rows, and the row count
\* reported for that side is 0.
C18_EmptyRowSetIsNoError ==
    generator # "none" =>
        /\ (genVintage.realizedRows = <<>> \/ genVintage.unrealizedRows = <<>>) =>
               (genBuffer.threw <=> genWrite.threw)
        /\ (~genBuffer.threw /\ genVintage.realizedRows = <<>>) =>
               /\ SheetsBuilt[1].name = "Realized"
               /\ SheetsBuilt[1].data = <<>>
               /\ genResult[1].realizedRowCount = 0
        /\ (~genBuffer.threw /\ genVintage.unrealizedRows = <<>>) =>
               /\ SheetsBuilt[2].name = "Unrealized"
               /\ SheetsBuilt[2].data = <<>>
               /\ genResult[1].unrealizedRowCount = 0

\* C18 witness: a vintage found only in the realized input was built with an
\* empty Unrealized sheet and an unrealized row count of 0
C18_Witness ==
    /\ generator = "xlsx" /\ ~genBuffer.threw
    /\ genVintage.unrealizedRows = <<>>
    /\ Len(genVintage.realizedRows) > 0
    /\ SheetsBuilt[2].data = <<>>
    /\ genResult[1].unrealizedRowCount = 0

----------------------------------------------------------------------------
(* Claims about the returned results, checked under Spec *)

\* processAndGenerateFiles has returned to the handler of request r
Returned(r) == pc[r] = "storing" \/ (pc[r] = "responded" /\ response[r].status = 200)

\* C15: a successful run returns exactly one VintageResult per partition,
\* with filename vintageName + "_Portfolio.xlsx", realizedRowCount the number
\* of the partition's realized rows and unrealizedRowCount the number of its
\* unrealized rows.
C15_OneResultPerPartition ==
    \A r \in Requests :
        Returned(r) =>
            LET partitions == PartitionsOf(files[r])
            IN  /\ Len(results[r]) = Len(partitions)
                /\ \A k \in 1..Len(partitions) :
                       /\ results[r][k].vintageName = partitions[k].vintageName
                       /\ results[r][k].filename
                              = partitions[k].vintageName \o PortfolioSuffix
                       /\ results[r][k].realizedRowCount = Len(partitions[k].realizedRows)
                       /\ results[r][k].unrealizedRowCount
                              = Len(partitions[k].unrealizedRows)

\* C15 witness: a run returned two results, the one of CQ2 counting one
\* realized row and no unrealized row
C15_Witness ==
    \E r \in Requests :
        /\ Returned(r)
        /\ Len(results[r]) = 2
        /\ results[r][2].filename = sCQ2 \o PortfolioSuffix
        /\ results[r][2].realizedRowCount = 1
        /\ results[r][2].unrealizedRowCount = 0

----------------------------------------------------------------------------
(* Claims about the keyed store and the download, checked under SpecStorage *)

\* what the calls of a log leave under key k: the buffer of the last store
\* under k after the last clear, undefined when there is none
LastStored(log, k) ==
    LET clears    == {i \in 1..Len(log) : log[i].op = "clear"}
        lastClear == IF clears = {} THEN 0
                     ELSE CHOOSE i \in clears : \A j \in clears : j <= i
        stores    == {i \in lastClear + 1..Len(log) : log[i].op = "store" /\ log[i].key = k}
    IN  IF stores = {} THEN Undefined
        ELSE log[CHOOSE i \in stores : \A j \in stores : j <= i].buffer

\* C16: a download request for a vintage name is answered with 404 when the
\* store holds no entry for that name and otherwise with the stored buffer
\* under the filename vintageName + "_Portfolio.xlsx"; the store is left as
\* it was.
C16_DownloadServesStoredBuffer ==
    (calls # <<>> /\ calls[Len(calls)].op = "download") =>
        LET vintageName == calls[Len(calls)].key
            before      == SubSeq(calls, 1, Len(calls) - 1)
        IN  /\ \A k \in StoreNames \cup DownloadParams :
                   getVintageFile(vintageFiles, k) = LastStored(before, k)
            /\ IF LastStored(before, vintageName) = Undefined
               THEN download.status = 404
               ELSE /\ download.status = 200
                    /\ download.body = LastStored(before, vintageName)
                    /\ download.filename = vintageName \o PortfolioSuffix

\* C17: after any sequence of storeVintageFile, getVintageFile and
\* clearVintageFiles calls, getVintageFile(k) returns the buffer of the most
\* recent storeVintageFile(k, .) since the last clearVintageFiles, or
\* undefined if there is none; a store under k changes no other key's entry.
C17_LastWriterWins ==
    /\ \A k \in StoreNames \cup DownloadParams :
           getVintageFile(vintageFiles, k) = LastStored(calls, k)
    /\ (calls # <<>> /\ calls[Len(calls)].op = "get") =>
           got = LastStored(calls, calls[Len(calls)].key)

\* C17 witness: CQ1 was stored twice with different buffers, another key
\* was stored too, and a get of CQ1 returned the second buffer
C17_Witness ==
    /\ Len(calls) = 4
    /\ calls[1].op = "store" /\ calls[1].key = sCQ1
    /\ calls[2].op = "store" /\ calls[2].key = sHalf
    /\ calls[3].op = "store" /\ calls[3].key = sCQ1 /\ calls[3].buffer # calls[1].buffer
    /\ calls[4].op = "get" /\ calls[4].key = sCQ1
    /\ got = calls[3].buffer
    /\ getVintageFile(vintageFiles, sHalf) = calls[2].buffer

----------------------------------------------------------------------------
(* Claims about repeated runs, checked under SpecRerun *)

----------------------------------------------------------------------------
(* Claims about the order of the vintages, checked under SpecPartition *)

\* C20: the order of the vintages is character-wise, not numeric-aware: when
\* CQ10 and CQ2 are both present, the partition named CQ10 is emitted before
\* the partition named CQ2.
C20_CQ10BeforeCQ2 ==
    Succeeded =>
        \A j, k \in 1..Len(out.value) :
            (out.value[j].vintageName = sCQ10 /\ out.value[k].vintageName = sCQ2) => j < k

\* C20 witness: CQ10 and CQ2 were both emitted, CQ10 right before CQ2
C20_Witness ==
    /\ impl = "xlsx" /\ ~out.threw
    /\ \E k \in 1..Len(out.value) - 1 :
           /\ out.value[k].vintageName = sCQ10
           /\ out.value[k + 1].vintageName = sCQ2

----------------------------------------------------------------------------
(* Claims about the process-files responses and the store, checked under Spec *)

\* the request came without its realized or without its unrealized file
LacksFile(r) == ~files[r].realized.present \/ ~files[r].unrealized.present

\* C21: a processing request that lacks the realized or the unrealized file
\* is rejected with status 400 before any extraction or partitioning runs,
\* and writes nothing to the keyed store.
C21_MissingFileRejected ==
    \A r \in Requests :
        (pc[r] # "idle" /\ LacksFile(r)) =>
            /\ pc[r] = "responded"
            /\ response[r].status = 400
            /\ vintageData[r] = <<>>
            /\ results[r] = <<>>
            /\ cursor[r] = 1
            /\ stored[r] = <<>>

\* C21 witness: a request without its unrealized file was answered with 400
\* while the store held entries of another request
C21_Witness ==
    \E r \in Requests :
        /\ pc[r] = "responded"
        /\ files[r].realized.present /\ ~files[r].unrealized.present
        /\ response[r].status = 400
        /\ stored[r] = <<>>
        /\ DOMAIN vintageFiles # {}

\* C22: the vintages list of a successful response and the names listed in
\* its summary message are in the order in which the partitions were emitted
\* (ascending vintageName in the order of the sort), one entry per partition.
C22_ResponseInEmissionOrder ==
    \A r \in Requests :
        (pc[r] = "responded" /\ response[r].status = 200) =>
            LET partitions == PartitionsOf(files[r])
                names      == [k \in 1..Len(partitions) |-> partitions[k].vintageName]
            IN  /\ Len(response[r].vintages) = Len(partitions)
                /\ response[r].count = Len(partitions)
                /\ \A k \in 1..Len(partitions) :
                       response[r].vintages[k].vintageName = names[k]
                /\ response[r].listed = join(names)
                /\ \A k \in 1..Len(names) - 1 : localeCompare(names[k], names[k + 1]) < 0

\* C22 witness: a response lists CQ1 and CQ2, in its list and in its message
C22_Witness ==
    \E r \in Requests :
        /\ pc[r] = "responded" /\ response[r].status = 200
        /\ Len(response[r].vintages) = 2
        /\ response[r].vintages[1].vintageName = sCQ1
        /\ response[r].vintages[2].vintageName = sCQ2
        /\ response[r].listed = sCQ1 \o <<44, 32>> \o sCQ2

\* C23: a processing request that fails at any point (extraction,
\* validation, workbook generation for any vintage, the store-writing loop)
\* leaves the keyed store as it was: a request that ends in an error
\* response has written nothing to the store.
C23_FailedRequestWritesNothing ==
    \A r \in Requests :
        (pc[r] = "responded" /\ response[r].status # 200) => stored[r] = <<>>

\* the vintage names of the partitions of request r
NamesOf(r) == {vintageData[r][k].vintageName : k \in 1..Len(vintageData[r])}

\* the buffer request r put in the store under a vintage name of its own
EntryOf(r, name) ==
    stored[r][CHOOSE k \in 1..Len(vintageData[r]) : vintageData[r][k].vintageName = name]

C25_EntriesAreNeverRemoved ==
    [][\A name \in DOMAIN vintageFiles :
           /\ downloadResponse(vintageFiles', name).status = 200
           /\ \/ downloadResponse(vintageFiles', name).body = vintageFiles[name]
              \/ \E r \in Requests :
                     /\ cursor'[r] = cursor[r] + 1
                     /\ vintageData[r][cursor[r]].vintageName = name]_vars

\* C25 witness: the workbook one request stored for CQ2 is still in the
\* store after another request, whose input holds CQ1 only, replaced the
\* entry of CQ1 and responded
C25_Witness ==
    \E a, b \in Requests :
        /\ a # b
        /\ pc[a] = "responded" /\ response[a].status = 200
        /\ pc[b] = "responded" /\ response[b].status = 200
        /\ NamesOf(a) = {sCQ1, sCQ2}
        /\ NamesOf(b) = {sCQ1}
        /\ vintageFiles[sCQ1] = stored[b][1]
        /\ vintageFiles[sCQ1] # stored[a][1]
        /\ downloadResponse(vintageFiles, sCQ2).body = EntryOf(a, sCQ2)

----------------------------------------------------------------------------
(* Claims about the rows of the Initial Purchase sheet, checked under SpecGenerate *)

\* the sheet row of the i-th data row: the header row, when there is one, is row 1
SheetRowOf(sheet, i) == (IF sheet.header = <<>> THEN 0 ELSE 1) + i

\* C26: the symbol at position k of the sorted symbol list is in sheet row
\* k + 1 of the Initial Purchase sheet, and the Initial Amount formula of
\* that row refers to the First Purchase Date cell B(k + 1) of the same row,
\* for every k.
C26_AmountRefersToOwnDateCell ==
    Built =>
        LET sheet   == SheetsBuilt[3]
            symbols == getUniqueSymbols(genVintage.realizedRows)
        IN  \A k \in 1..Len(symbols) :
                /\ k <= Len(sheet.data)
                /\ sheet.data[k].A = symbols[k]
                /\ SheetRowOf(sheet, k) = k + 1
                /\ sheet.data[k].C.dateCell = [column |-> "B", row |-> k + 1]

\* C26 witness: with the symbols AAPL and MSFT, the amount formula of MSFT
\* in sheet row 3 refers to B3
C26_Witness ==
    /\ generator = "xlsx" /\ ~genBuffer.threw
    /\ getUniqueSymbols(genVintage.realizedRows) = <<sAAPL, sMSFT>>
    /\ SheetsBuilt[3].data[2].A = sMSFT
    /\ SheetsBuilt[3].data[2].C.dateCell.row = 3

----------------------------------------------------------------------------
(* Claims about the order of the rows, checked under SpecPipeline *)

\* the rows are rows of the source sheet, in the order they have there
InSourceOrder(rows, source) ==
    /\ \A i \in 1..Len(rows) :
           rows[i].rowNum \in 1..Len(source) /\ rows[i] = source[rows[i].rowNum]
    /\ \A i, j \in 1..Len(rows) : i < j => rows[i].rowNum < rows[j].rowNum

\* the sheet has one data row per row, in the order of the rows: the i-th
\* data row holds the cells of the i-th row
RowForRow(sheet, rows) ==
    /\ Len(sheet.data) = Len(rows)
    /\ \A i \in 1..Len(rows) :
           sheet.data[i] = [c \in 1..Len(sheet.header) |-> Get(rows[i], sheet.header[c])]

\* C27: partitioning is stable: the rows of realizedRows and unrealizedRows
\* of each partition keep the relative order they had in their source
\* table, and the Realized and Unrealized sheets generated for a partition
\* hold exactly one data row per partition row, in that same order.
C27_StableRowsRenderedInOrder ==
    /\ (impl # "none" /\ ~out.threw) =>
           \A k \in 1..Len(out.value) :
               /\ InSourceOrder(out.value[k].realizedRows, realizedWorkbook[1])
               /\ InSourceOrder(out.value[k].unrealizedRows, unrealizedWorkbook[1])
    /\ Built =>
           /\ genVintage \in Range(out.value)
           /\ RowForRow(SheetsBuilt[1], genVintage.realizedRows)
           /\ RowForRow(SheetsBuilt[2], genVintage.unrealizedRows)

\* C27 witness: rows 1 and 3 of the realized table, with different cells,
\* are the realized rows of one partition, and the Realized sheet generated
\* for it holds them in that order
C27_Witness ==
    /\ impl = "xlsx" /\ generator = "xlsx" /\ ~genBuffer.threw
    /\ Len(genVintage.realizedRows) = 2
    /\ genVintage.realizedRows[1].rowNum = 1
    /\ genVintage.realizedRows[2].rowNum = 3
    /\ genVintage.realizedRows[1].Vintage # genVintage.realizedRows[2].Vintage
    /\ Len(SheetsBuilt[1].data) = 2
    /\ SheetsBuilt[1].data[1] # SheetsBuilt[1].data[2]

----------------------------------------------------------------------------
(* Claims about header spellings and the order of the checks, checked under
   SpecValidation *)

\* the row has a vintage cell, but under neither "Vintage" nor "vintage"
OtherCasingOnly(row) ==
    /\ "VINTAGE" \in DOMAIN row
    /\ "Vintage" \notin DOMAIN row
    /\ "vintage" \notin DOMAIN row

\* the workbook has a sheet with rows, all of them with the vintage under
\* another casing only
OnlyOtherCasing(workbook) ==
    /\ Len(workbook) > 0
    /\ Len(workbook[1]) > 0
    /\ \A n \in 1..Len(workbook[1]) : OtherCasingOnly(workbook[1][n])

\* some row of the workbook's sheet has a cell under "Vintage" or "vintage"
HasRecognisedSpelling(workbook) ==
    /\ Len(workbook) > 0
    /\ \E n \in 1..Len(workbook[1]) :
           "Vintage" \in DOMAIN workbook[1][n] \/ "vintage" \in DOMAIN workbook[1][n]

NoSheets(workbook) == Len(workbook) = 0

\* the workbook has a sheet, and no row of it yields a vintage
NoVintageColumn(workbook) ==
    /\ Len(workbook) > 0
    /\ \A n \in 1..Len(workbook[1]) : ~Truthy(VintageOf(workbook[1][n]))

\* the no-sheet error of an input: the ExcelJS variant raises it in
\* readExcelBuffer, with one text for both inputs
NoSheetsError(input) ==
    IF impl = "exceljs" THEN readExcelBuffer(<<>>)
    ELSE IF input = "realized" THEN Throw("Realized Excel file has no sheets")
    ELSE Throw("Unrealized Excel file has no sheets")

\* C30: when both inputs are defective, one error is reported, by a fixed
\* precedence: the no-sheet error of the realized input, then that of the
\* unrealized input, then the missing-Vintage-column error of the realized
\* input, then that of the unrealized input; a failed run has computed no
\* partition, and a run fails only on one of these defects.
C30_ErrorPrecedence ==
    impl # "none" =>
        /\ NoSheets(realizedWorkbook) => out = NoSheetsError("realized")
        /\ (~NoSheets(realizedWorkbook) /\ NoSheets(unrealizedWorkbook)) =>
               out = NoSheetsError("unrealized")
        /\ (~NoSheets(realizedWorkbook) /\ ~NoSheets(unrealizedWorkbook)) =>
               /\ NoVintageColumn(realizedWorkbook) =>
                      out = Throw("Realized Excel file does not contain a 'Vintage' column")
               /\ (~NoVintageColumn(realizedWorkbook) /\ NoVintageColumn(unrealizedWorkbook)) =>
                      out = Throw("Unrealized Excel file does not contain a 'Vintage' column")
               /\ (~NoVintageColumn(realizedWorkbook) /\ ~NoVintageColumn(unrealizedWorkbook)) =>
                      ~out.threw
        /\ out.threw => out.value = <<>>

\* C30 witness: the realized table has a sheet without vintages and the
\* unrealized workbook has no sheet; the no-sheet error of the unrealized
\* input is the one reported
C30_Witness ==
    /\ impl = "xlsx"
    /\ NoVintageColumn(realizedWorkbook)
    /\ Len(realizedWorkbook[1]) > 0
    /\ NoSheets(unrealizedWorkbook)
    /\ out.threw
    /\ out.message = "Unrealized Excel file has no sheets"

----------------------------------------------------------------------------
(* Claims about the emitted partitions, checked under SpecPartition *)

\* C29: every partition returned by processFiles is non-empty: at least one
\* of its realizedRows and unrealizedRows holds a row.
C29_NoEmptyPartition ==
    Succeeded =>
        \A k \in 1..Len(out.value) :
            Len(out.value[k].realizedRows) + Len(out.value[k].unrealizedRows) > 0

\* C29 witness: the partition CQ2 has no realized row; its one unrealized
\* row carries the vintage under the lower-case key
C29_Witness ==
    /\ impl = "xlsx" /\ ~out.threw
    /\ \E k \in 1..Len(out.value) :
           /\ out.value[k].vintageName = sCQ2
           /\ out.value[k].realizedRows = <<>>
           /\ Len(out.value[k].unrealizedRows) = 1
           /\ out.value[k].unrealizedRows[1].vintage = sCQ2

====
